---------------------------- MODULE Spec2Model ----------------------------
(***************************************************************************)
(* A model of the rust-bolts wire codec: the BigSize variable-length       *)
(* integer (src/src/bigsize.rs), the byte readers (src/src/ser.rs), the    *)
(* TLV record and stream decoders and their rendering (src/src/tlv.rs),    *)
(* and the Init message (src/src/msgs.rs).                                 *)
(*                                                                         *)
(* Unsigned integers are kept as big-endian base-256 digit sequences of    *)
(* their width (u8: 1 digit, u16: 2, u32: 4, u64: 8), so that a u64 keeps  *)
(* its full range; from_be_bytes / to_be_bytes are the positional reading  *)
(* of the digits, a cast to a wider type prepends zero digits and a cast   *)
(* to a narrower type keeps the low digits.                                *)
(***************************************************************************)
EXTENDS Integers, Sequences, FiniteSets, TLC

VARIABLES
    input,        \* the bytes held by the Cursor the decoder reads from
    pos,          \* the Cursor's position: bytes of input consumed so far
    have_read,    \* ReadTrackingReader.have_read of the current attempt
    attempt_pos,  \* pos when the current attempt's tracker was created
    pc,           \* the place in the running call
    rec_pc,       \* the place in TLVRecord::read
    record_type,  \* TLVRecord::read's local record_type (u64)
    length,       \* TLVRecord::read's local length (u64)
    v,            \* TLVRecord::read's local v, the raw value bytes
    rec_res,      \* the Result TLVRecord::read returned to TLVStream::read
    tlv_stream,   \* TLVStream::read's local tlv_stream: the records pushed
    result,       \* what the call under study returned
    x,            \* the u64 a BigSize wraps (encode side)
    writer,       \* the Vec<u8> that encode() wrote
    bs,           \* the u64 BigSize::read returned
    pending,      \* byte strings the harness still has to decode
    outcomes,     \* what the harness's finished decodes returned
    msg,          \* Init::read's locals typ, gflen, global_features, flen
                  \* and features
    msg_res,      \* what Init::read returned
    rendered      \* the text to_string() wrote, as hex digits

vars == <<input, pos, have_read, attempt_pos, pc, rec_pc, record_type, length, v,
          rec_res, tlv_stream, result, x, writer, bs, pending, outcomes,
          msg, msg_res, rendered>>

---------------------------------------------------------------------------
(* Bounds of the model.                                                    *)

\* longest byte string drawn exhaustively over ByteSamples
MaxLen == 5
\* most records in each of the two parts of a concatenation
MaxParts == 2
\* most bytes cut off the end of a framed input
MaxCut == 2
\* longest type-1 payload drawn exhaustively over AmountBytes
MaxAmountLen == 9
\* most bytes that follow the longest BigSize encoding in a decoder input
MaxTrail == 1
\* most records of a rendered stream
MaxRecords == 3
\* most bytes of a payload above the 49 that the longest exact length takes
MaxOver == 2

---------------------------------------------------------------------------
(* Fixed-width unsigned integers as big-endian digit sequences.            *)

Zeros(n) == [i \in 1..n |-> 0]

\* `x as u64` and friends, to a wider type: zero digits on the left
ZeroExtend(b, w) == Zeros(w - Len(b)) \o b

\* `x as u8`, `x as u16`, `x as u32`: the low w digits
Truncate(b, w) == SubSeq(b, Len(b) - w + 1, Len(b))

\* a < b for two integers of the same width
Lt(a, b) ==
    \E i \in 1..Len(a) :
        /\ a[i] < b[i]
        /\ \A j \in 1..(i - 1) : a[j] = b[j]

\* the u64 of a small natural number
U64Of(n) == <<0, 0, 0, 0, 0, 0, n \div 256, n % 256>>

\* the natural number of a u64 below 2^16 (callers check IsSmall first)
IsSmall(u) == \A i \in 1..(Len(u) - 2) : u[i] = 0
NatOf(u) == u[Len(u) - 1] * 256 + u[Len(u)]

---------------------------------------------------------------------------
(* src/src/ser.rs: the byte source and the readers.                        *)

\* DecodeError's variants, and the Ok of a Result
Ok == "Ok"
ShortRead == "ShortRead"
InvalidData == "InvalidData"
UnknownRequiredFeature == "UnknownRequiredFeature"
IoInvalidData == "Io(InvalidData)"

\* A reader is the Cursor's bytes and position with the tracker's flag.
Reader(inp, p, hr) == [inp |-> inp, pos |-> p, have_read |-> hr]

\* Cursor::read into a buffer of n bytes: delivers what is there, up to n
CursorRead(rd, n) ==
    LET avail == Len(rd.inp) - rd.pos
        len == IF avail < n THEN avail ELSE n
    IN  [len |-> len,
         bytes |-> SubSeq(rd.inp, rd.pos + 1, rd.pos + len),
         rd |-> [rd EXCEPT !.pos = rd.pos + len]]

\* ReadTrackingReader::read's match on the inner read: Ok(0) leaves
\* have_read, Ok(len) sets it
Tracked(r) ==
    IF r.len = 0
    THEN r
    ELSE [r EXCEPT !.rd.have_read = TRUE]

\* a tracker that also counts a zero-byte read as a read
TrackingReadAnyCall(rd, n) == [CursorRead(rd, n) EXCEPT !.rd.have_read = TRUE]

\* ReadTrackingReader::read
TrackingRead(rd, n) == Tracked(CursorRead(rd, n))

\* Read::read_exact (the default method, which ReadTrackingReader keeps):
\* read until the buffer is full; a read of 0 bytes is UnexpectedEof.  A
\* Cursor delivers all it holds in one read, so the loop ends with its
\* second read at the latest: the first read (r1) either fills the buffer
\* or drains the Cursor, and then the second (r2) delivers 0 bytes.
ReadExactSecond(n, r1, r2) ==
    [ok |-> r2.len = n - r1.len, bytes |-> r1.bytes \o r2.bytes, rd |-> r2.rd]

ReadExactFirst(n, r1) ==
    IF r1.len = 0
    THEN [ok |-> FALSE, bytes |-> <<>>, rd |-> r1.rd]
    ELSE IF r1.len = n
    THEN [ok |-> TRUE, bytes |-> r1.bytes, rd |-> r1.rd]
    ELSE ReadExactSecond(n, r1, TrackingRead(r1.rd, n - r1.len))

ReadExact(rd, n) ==
    IF n = 0
    THEN [ok |-> TRUE, bytes |-> <<>>, rd |-> rd]
    ELSE ReadExactFirst(n, TrackingRead(rd, n))

\* `.map_err(|_| DecodeError::ShortRead)?`
MapErrShortRead(r) ==
    [err |-> IF r.ok THEN Ok ELSE ShortRead,
     val |-> IF r.ok THEN r.bytes ELSE <<>>,
     rd |-> r.rd]

\* impl_readable_int_be!: n bytes, big-endian; any failure is ShortRead
ReadInt(rd, n) == MapErrShortRead(ReadExact(rd, n))

\* `length.0 as usize` at or above 2^63 bytes: vec![0; length] panics with
\* "capacity overflow" before any byte is read
TooLargeToAllocate(len64) == len64[1] >= 128

Panic == "Panic"

\* a fixed-length read that keeps the low byte of the length only
FixedLengthReadLowByte(rd, len64) ==
    MapErrShortRead(ReadExact(rd, len64[8]))

\* FixedLengthReadable for Vec<u8>: exactly `length` bytes or ShortRead.
\* A length of 2^16 or more exceeds every input of the model, so the first
\* read drains the source and read_exact fails.
FixedLengthRead(rd, len64) ==
    IF TooLargeToAllocate(len64)
    THEN [err |-> Panic, val |-> <<>>, rd |-> rd]
    ELSE IF ~IsSmall(len64)
    THEN [err |-> ShortRead, val |-> <<>>,
          rd |-> TrackingRead(rd, Len(rd.inp) + 1).rd]
    ELSE MapErrShortRead(ReadExact(rd, NatOf(len64)))

---------------------------------------------------------------------------
(* src/src/bigsize.rs: BigSize.                                            *)

\* the thresholds of the encoding, as u64, and the prefix bytes
Bound_fd == U64Of(253)
Bound_10000 == <<0, 0, 0, 0, 0, 1, 0, 0>>
Bound_100000000 == <<0, 0, 0, 1, 0, 0, 0, 0>>
Prefix_u16 == 253
Prefix_u32 == 254
Prefix_u64 == 255

\* an encoder that takes the two-byte form up to and including 0x10000
BigSizeWriteOffByOne(x64) ==
    IF Lt(x64, Bound_fd)
    THEN Truncate(x64, 1)
    ELSE IF ~Lt(Bound_10000, x64)
    THEN <<Prefix_u16>> \o Truncate(x64, 2)
    ELSE IF Lt(x64, Bound_100000000)
    THEN <<Prefix_u32>> \o Truncate(x64, 4)
    ELSE <<Prefix_u64>> \o x64

\* Writeable for BigSize: write, on an empty Vec (encode)
BigSizeWrite(x64) ==
    IF Lt(x64, Bound_fd)
    THEN Truncate(x64, 1)
    ELSE IF Lt(x64, Bound_10000)
    THEN <<Prefix_u16>> \o Truncate(x64, 2)
    ELSE IF Lt(x64, Bound_100000000)
    THEN <<Prefix_u32>> \o Truncate(x64, 4)
    ELSE <<Prefix_u64>> \o x64

\* a check that lets every value through
CheckCanonicalLax(r, w, least) ==
    IF r.err # Ok
    THEN [err |-> r.err, val |-> Zeros(8), rd |-> r.rd]
    ELSE [err |-> Ok, val |-> ZeroExtend(r.val, 8), rd |-> r.rd]

\* a check that also rejects the least value that needs w bytes
CheckCanonicalStrict(r, w, least) ==
    IF r.err # Ok
    THEN [err |-> r.err, val |-> Zeros(8), rd |-> r.rd]
    ELSE IF ~Lt(Truncate(least, w), r.val)
    THEN [err |-> IoInvalidData, val |-> Zeros(8), rd |-> r.rd]
    ELSE [err |-> Ok, val |-> ZeroExtend(r.val, 8), rd |-> r.rd]

\* one multi-byte form, after `let x = Readable::read(reader)?` gave r:
\* x below the least value that needs w bytes is not canonical
CheckCanonical(r, w, least) ==
    IF r.err # Ok
    THEN [err |-> r.err, val |-> Zeros(8), rd |-> r.rd]
    ELSE IF Lt(r.val, Truncate(least, w))
    THEN [err |-> IoInvalidData, val |-> Zeros(8), rd |-> r.rd]
    ELSE [err |-> Ok, val |-> ZeroExtend(r.val, 8), rd |-> r.rd]

\* BigSize::read after `let size: u8 = Readable::read(reader)?` gave size
BigSizeReadAfterPrefix(size) ==
    IF size.err # Ok
    THEN [err |-> size.err, val |-> Zeros(8), rd |-> size.rd]
    ELSE IF size.val = <<Prefix_u16>>
    THEN CheckCanonical(ReadInt(size.rd, 2), 2, Bound_fd)
    ELSE IF size.val = <<Prefix_u32>>
    THEN CheckCanonical(ReadInt(size.rd, 4), 4, Bound_10000)
    ELSE IF size.val = <<Prefix_u64>>
    THEN CheckCanonical(ReadInt(size.rd, 8), 8, Bound_100000000)
    ELSE [err |-> Ok, val |-> ZeroExtend(size.val, 8), rd |-> size.rd]

\* Readable for BigSize: read
BigSizeRead(rd) == BigSizeReadAfterPrefix(ReadInt(rd, 1))

---------------------------------------------------------------------------
(* src/src/tlv.rs: the value decoders.                                     *)

\* Option<Value>: the variant and its content as bytes (an integer as its
\* big-endian digits); None has no content
Value(kind, data) == [kind |-> kind, data |-> data]
None == Value("None", <<>>)

\* Result<Option<Value>, DecodeError>
ValueOk(val) == [err |-> Ok, value |-> val]
ValueErr(e) == [err |-> e, value |-> None]

\* 0x01, 0x0100, 0x010000, ...: the least u64 that needs n bytes
MinAmount(n) == [i \in 1..8 |-> IF i = 9 - n THEN 1 ELSE 0]

\* a decoder that only rejects a payload that is all zero
decode_tlv1_zero_only(stream) ==
    LET n == Len(stream)
        val == Zeros(8 - n) \o stream
    IN  IF n = 0 THEN ValueErr(ShortRead)
        ELSE IF n <= 8
        THEN IF val = Zeros(8)
             THEN ValueErr(InvalidData)
             ELSE ValueOk(Value("Amount", val))
        ELSE ValueErr(InvalidData)

\* decode_tlv1!: the amount, at most 8 bytes, minimally encoded
decode_tlv1(stream) ==
    LET n == Len(stream)
        val == Zeros(8 - n) \o stream
    IN  IF n = 0 THEN ValueErr(ShortRead)
        ELSE IF n <= 8
        THEN IF \/ n = 1 /\ val = Zeros(8)
                \/ n >= 2 /\ Lt(val, MinAmount(n))
             THEN ValueErr(InvalidData)
             ELSE ValueOk(Value("Amount", val))
        ELSE ValueErr(InvalidData)

\* decode_tlv2!: the short channel id, exactly 8 bytes
decode_tlv2(stream) ==
    IF Len(stream) > 8 THEN ValueErr(InvalidData)
    ELSE IF Len(stream) # 8 THEN ValueErr(ShortRead)
    ELSE ValueOk(Value("ShortChannelId", stream))

\* PublicKey::from_slice on 33 bytes (secp256k1, outside the repository):
\* the first byte must announce a compressed point; on_curve stands for
\* the library's check of the x coordinate.
PublicKeyFromSlice(bytes, on_curve) == bytes[1] \in {2, 3} /\ on_curve

\* decode_tlv3! and PointAmount::new: exactly 49 bytes
decode_tlv3(stream, on_curve) ==
    IF Len(stream) < 49 THEN ValueErr(ShortRead)
    ELSE IF Len(stream) > 49 THEN ValueErr(InvalidData)
    ELSE IF ~PublicKeyFromSlice(SubSeq(stream, 1, 33), on_curve)
    THEN ValueErr(InvalidData)
    ELSE ValueOk(Value("PointAmount", stream))

\* decode_tlv4!: the expiry, exactly 2 bytes
decode_tlv4(stream) ==
    IF Len(stream) < 2 THEN ValueErr(ShortRead)
    ELSE IF Len(stream) > 2 THEN ValueErr(InvalidData)
    ELSE ValueOk(Value("CLTVExpiry", stream))

\* x % 2 == 0
IsEven(u) == u[Len(u)] % 2 = 0

\* a dispatch that keeps every unrecognized type, whatever its parity
DecodeValueNoParity(type, stream, on_curve) ==
    IF type = U64Of(1) THEN decode_tlv1(stream)
    ELSE IF type = U64Of(2) THEN decode_tlv2(stream)
    ELSE IF type = U64Of(3) THEN decode_tlv3(stream, on_curve)
    ELSE IF type = U64Of(254) THEN decode_tlv4(stream)
    ELSE ValueOk(Value("Unknown", stream))

\* TLVRecord::read's `match record_type.0`
DecodeValue(type, stream, on_curve) ==
    IF type = U64Of(1) THEN decode_tlv1(stream)
    ELSE IF type = U64Of(2) THEN decode_tlv2(stream)
    ELSE IF type = U64Of(3) THEN decode_tlv3(stream, on_curve)
    ELSE IF type = U64Of(254) THEN decode_tlv4(stream)
    ELSE IF IsEven(type) THEN ValueErr(UnknownRequiredFeature)
    ELSE ValueOk(Value("Unknown", stream))

TLVRecord(type, len64, val) ==
    [record_type |-> type, length |-> len64, value |-> val]

NoRecord == TLVRecord(Zeros(8), Zeros(8), None)

\* Result<TLVRecord, DecodeError>
RecordOk(r) == [err |-> Ok, record |-> r]
RecordErr(e) == [err |-> e, record |-> NoRecord]

\* a final match that takes an empty payload of any type as an absent value
MatchValueAnyEmpty(type, len64, value) ==
    IF value.err = ShortRead
    THEN IF len64 = Zeros(8)
         THEN RecordOk(TLVRecord(type, len64, None))
         ELSE RecordErr(ShortRead)
    ELSE IF value.err # Ok
    THEN RecordErr(value.err)
    ELSE RecordOk(TLVRecord(type, len64, value.value))

\* TLVRecord::read's `match value`
MatchValue(type, len64, value) ==
    IF value.err = ShortRead
    THEN IF len64 = Zeros(8) /\ type = U64Of(1)
         THEN RecordOk(TLVRecord(type, len64, None))
         ELSE RecordErr(ShortRead)
    ELSE IF value.err # Ok
    THEN RecordErr(value.err)
    ELSE RecordOk(TLVRecord(type, len64, value.value))

\* an ordering check that lets a repeated type through
OutOfOrderStrict(stream, record) ==
    /\ stream # <<>>
    /\ Lt(record.record_type, stream[Len(stream)].record_type)

\* TLVStream::read's `prev.record_type.0 >= record.record_type.0`
OutOfOrder(stream, record) ==
    /\ stream # <<>>
    /\ ~Lt(stream[Len(stream)].record_type, record.record_type)

---------------------------------------------------------------------------
(* TLVStream::read, one action per step of its loop.  pc is the place in   *)
(* TLVStream::read: "loop" (the top of the loop), "record" (inside the     *)
(* call of TLVRecord::read), "match" (the call returned rec_res) and       *)
(* "done".  rec_pc is the place in TLVRecord::read: the field being read   *)
(* ("type", "length", "value"), "decode" (the value bytes are read), and   *)
(* "returned" once its final match returned; after a `?` returned early    *)
(* it stays at the field whose read failed.                                *)

Running == "Running"
Pending == "Pending"

recordLocals == <<record_type, length, v>>
source == <<input, pos, have_read>>
bigsizeVars == <<x, writer, bs>>
harness == <<pending, outcomes>>
messageVars == <<msg, msg_res, rendered>>

\* Init's fields before Init::read has read them
NoFields ==
    [typ |-> <<0, 0>>, gflen |-> <<0, 0>>, global_features |-> <<>>,
     flen |-> <<0, 0>>, features |-> <<>>]

\* no Init::read is running and nothing was rendered
NoMessage ==
    /\ msg = NoFields
    /\ msg_res = Running
    /\ rendered = <<>>

\* the state of a TLVStream::read call that is about to start on `bytes`
CallStarts(bytes) ==
    /\ input = bytes
    /\ pos = 0
    /\ have_read = FALSE
    /\ attempt_pos = 0
    /\ pc = "loop"
    /\ rec_pc = "type"
    /\ record_type = Zeros(8)
    /\ length = Zeros(8)
    /\ v = <<>>
    /\ rec_res = RecordErr(Pending)
    /\ tlv_stream = <<>>
    /\ result = Running

\* a loop that keeps one tracker for the whole stream
StartAttemptShared ==
    /\ pc = "loop"
    /\ attempt_pos' = pos
    /\ record_type' = Zeros(8)
    /\ length' = Zeros(8)
    /\ v' = <<>>
    /\ rec_res' = RecordErr(Pending)
    /\ pc' = "record"
    /\ rec_pc' = "type"
    /\ UNCHANGED <<input, pos, have_read, tlv_stream, result>>
    /\ UNCHANGED <<bigsizeVars, harness, messageVars>>

\* `let mut tracking_reader = ReadTrackingReader::new(&mut *reader)` and
\* the call `Readable::read(&mut tracking_reader)`
StartAttempt ==
    /\ pc = "loop"
    /\ have_read' = FALSE
    /\ attempt_pos' = pos
    /\ record_type' = Zeros(8)
    /\ length' = Zeros(8)
    /\ v' = <<>>
    /\ rec_res' = RecordErr(Pending)
    /\ pc' = "record"
    /\ rec_pc' = "type"
    /\ UNCHANGED <<input, pos, tlv_stream, result>>
    /\ UNCHANGED <<bigsizeVars, harness, messageVars>>

\* `let record_type: BigSize = Readable::read(reader)?`
ReadType ==
    /\ pc = "record"
    /\ rec_pc = "type"
    /\ LET r == BigSizeRead(Reader(input, pos, have_read))
       IN  /\ pos' = r.rd.pos
           /\ have_read' = r.rd.have_read
           /\ IF r.err = Ok
              THEN /\ record_type' = r.val
                   /\ rec_pc' = "length"
                   /\ UNCHANGED <<pc, rec_res>>
              ELSE /\ rec_res' = RecordErr(r.err)
                   /\ pc' = "match"
                   /\ UNCHANGED <<rec_pc, record_type>>
    /\ UNCHANGED <<input, attempt_pos, length, v, tlv_stream, result>>
    /\ UNCHANGED <<bigsizeVars, harness, messageVars>>

\* `let length: BigSize = Readable::read(reader)?`
ReadLength ==
    /\ pc = "record"
    /\ rec_pc = "length"
    /\ LET r == BigSizeRead(Reader(input, pos, have_read))
       IN  /\ pos' = r.rd.pos
           /\ have_read' = r.rd.have_read
           /\ IF r.err = Ok
              THEN /\ length' = r.val
                   /\ rec_pc' = "value"
                   /\ UNCHANGED <<pc, rec_res>>
              ELSE /\ rec_res' = RecordErr(r.err)
                   /\ pc' = "match"
                   /\ UNCHANGED <<rec_pc, length>>
    /\ UNCHANGED <<input, attempt_pos, record_type, v, tlv_stream, result>>
    /\ UNCHANGED <<bigsizeVars, harness, messageVars>>

\* a TLVRecord::read that rejects an unrecognized even type as soon as the
\* length is read, before it reads the value bytes
ReadValueParityFirst ==
    /\ pc = "record"
    /\ rec_pc = "value"
    /\ IF record_type \notin {U64Of(1), U64Of(2), U64Of(3), U64Of(254)}
            /\ IsEven(record_type)
       THEN /\ rec_res' = RecordErr(UnknownRequiredFeature)
            /\ pc' = "match"
            /\ UNCHANGED <<pos, have_read, rec_pc, v, result>>
       ELSE LET r == FixedLengthRead(Reader(input, pos, have_read), length)
            IN  /\ pos' = r.rd.pos
                /\ have_read' = r.rd.have_read
                /\ IF r.err = Ok
                   THEN /\ v' = r.val
                        /\ rec_pc' = "decode"
                        /\ UNCHANGED <<pc, rec_res, result>>
                   ELSE IF r.err = Panic
                   THEN /\ result' = Panic
                        /\ pc' = "done"
                        /\ UNCHANGED <<rec_pc, rec_res, v>>
                   ELSE /\ rec_res' = RecordErr(r.err)
                        /\ pc' = "match"
                        /\ UNCHANGED <<rec_pc, v, result>>
    /\ UNCHANGED <<input, attempt_pos, record_type, length, tlv_stream>>
    /\ UNCHANGED <<bigsizeVars, harness, messageVars>>

\* `let v: Vec<u8> = FixedLengthReadable::read(reader, length.0 as usize)?`
ReadValue ==
    /\ pc = "record"
    /\ rec_pc = "value"
    /\ LET r == FixedLengthRead(Reader(input, pos, have_read), length)
       IN  /\ pos' = r.rd.pos
           /\ have_read' = r.rd.have_read
           /\ IF r.err = Ok
              THEN /\ v' = r.val
                   /\ rec_pc' = "decode"
                   /\ UNCHANGED <<pc, rec_res, result>>
              ELSE IF r.err = Panic
              THEN /\ result' = Panic
                   /\ pc' = "done"
                   /\ UNCHANGED <<rec_pc, rec_res, v>>
              ELSE /\ rec_res' = RecordErr(r.err)
                   /\ pc' = "match"
                   /\ UNCHANGED <<rec_pc, v, result>>
    /\ UNCHANGED <<input, attempt_pos, record_type, length, tlv_stream>>
    /\ UNCHANGED <<bigsizeVars, harness, messageVars>>

\* the rest of TLVRecord::read: `match record_type.0` and `match value`
DecodeRecord ==
    /\ pc = "record"
    /\ rec_pc = "decode"
    /\ \E on_curve \in BOOLEAN :
        rec_res' = MatchValue(record_type, length,
                              DecodeValue(record_type, v, on_curve))
    /\ pc' = "match"
    /\ rec_pc' = "returned"
    /\ UNCHANGED <<source, attempt_pos, recordLocals, tlv_stream, result>>
    /\ UNCHANGED <<bigsizeVars, harness, messageVars>>

\* `Ok(r) => r`, the ordering check and `tlv_stream.push(record)`
MatchOk ==
    /\ pc = "match"
    /\ rec_res.err = Ok
    /\ IF OutOfOrder(tlv_stream, rec_res.record)
       THEN /\ result' = InvalidData
            /\ pc' = "done"
            /\ UNCHANGED tlv_stream
       ELSE /\ tlv_stream' = Append(tlv_stream, rec_res.record)
            /\ pc' = "loop"
            /\ UNCHANGED result
    /\ UNCHANGED <<source, attempt_pos, rec_pc, recordLocals, rec_res>>
    /\ UNCHANGED <<bigsizeVars, harness, messageVars>>

\* an error arm that goes round the loop again at the end of the input
\* instead of leaving it
MatchErrContinue ==
    /\ pc = "match"
    /\ rec_res.err # Ok
    /\ IF rec_res.err = ShortRead /\ ~have_read
       THEN /\ pc' = "loop"
            /\ UNCHANGED result
       ELSE /\ result' = rec_res.err
            /\ pc' = "done"
    /\ UNCHANGED <<source, attempt_pos, rec_pc, recordLocals, rec_res>>
    /\ UNCHANGED <<tlv_stream, bigsizeVars, harness, messageVars>>

\* an error arm that reports every failure of a record as InvalidData
MatchErrMasked ==
    /\ pc = "match"
    /\ rec_res.err # Ok
    /\ result' = IF rec_res.err = ShortRead /\ ~have_read
                 THEN Ok
                 ELSE InvalidData
    /\ pc' = "done"
    /\ UNCHANGED <<source, attempt_pos, rec_pc, recordLocals, rec_res>>
    /\ UNCHANGED <<tlv_stream, bigsizeVars, harness, messageVars>>

\* `Err(DecodeError::ShortRead) => ...` and `Err(e) => return Err(e)`;
\* the break falls through to `Ok(TLVStream(tlv_stream))`
MatchErr ==
    /\ pc = "match"
    /\ rec_res.err # Ok
    /\ result' = IF rec_res.err = ShortRead /\ ~have_read
                 THEN Ok
                 ELSE rec_res.err
    /\ pc' = "done"
    /\ UNCHANGED <<source, attempt_pos, rec_pc, recordLocals, rec_res>>
    /\ UNCHANGED <<tlv_stream, bigsizeVars, harness, messageVars>>

Next ==
    \/ StartAttempt
    \/ ReadType
    \/ ReadLength
    \/ ReadValue
    \/ DecodeRecord
    \/ MatchOk
    \/ MatchErr

---------------------------------------------------------------------------
(* The inputs of TLVStream::read.                                          *)

\* the bytes of the exhaustive short inputs: the types 0, 1, 2 and 5, the
\* lengths 0, 1, 2 and 5, and the prefix of the three-byte BigSize
ByteSamples == {0, 1, 2, 5, 253}

ShortStrings == UNION {[1..n -> ByteSamples] : n \in 0..MaxLen}

\* non-canonical BigSize fields: 1, 65535 and 2^32 - 1 in too many bytes
NonCanonicalFields ==
    { <<253, 0, 1>>,
      <<254, 0, 0, 255, 255>>,
      <<255, 0, 0, 0, 0, 255, 255, 255, 255>> }

\* type fields of the framed inputs: 1, 2, 18, 31, 254, 0x02000001,
\* 2^64 - 1, and the non-canonical ones
TypeFields ==
    { <<1>>, <<2>>, <<18>>, <<31>>, <<253, 0, 254>>, <<254, 2, 0, 0, 1>>,
      <<255, 255, 255, 255, 255, 255, 255, 255, 255>> }
    \cup NonCanonicalFields

\* length field and payload of the framed inputs: a payload of 0, 1, 2
\* and 8 bytes, a non-canonical length, and the lengths 65536 and 2^64 - 1
\* with a payload of one byte
Bodies ==
    { <<0>>, <<1, 1>>, <<2, 2, 38>>, <<8, 1, 0, 0, 0, 0, 0, 2, 38>>,
      <<254, 0, 1, 0, 0, 7>>,
      <<255, 255, 255, 255, 255, 255, 255, 255, 255, 7>> }
    \cup {f \o <<0>> : f \in NonCanonicalFields}

Frames == {t \o b : t \in TypeFields, b \in Bodies}

\* the input without its last k bytes
CutEnd(bytes, k) ==
    SubSeq(bytes, 1, IF Len(bytes) > k THEN Len(bytes) - k ELSE 0)

\* one frame or two, the end cut off by up to MaxCut bytes
FramedInputs ==
    {CutEnd(f \o g, k) : f \in Frames, g \in Frames \cup {<<>>},
                         k \in 0..MaxCut}

Inputs == ShortStrings \cup FramedInputs

Idle ==
    /\ x = Zeros(8)
    /\ writer = <<>>
    /\ bs = Zeros(8)
    /\ pending = <<>>
    /\ outcomes = <<>>
    /\ NoMessage

Init ==
    /\ \E bytes \in Inputs : CallStarts(bytes)
    /\ Idle

Spec == Init /\ [][Next]_vars

---------------------------------------------------------------------------
(* Concatenation: the harness decodes A, then B, then A followed by B,     *)
(* each from a fresh Cursor, as the tests' loop over their vectors does.   *)

Last(seq) == seq[Len(seq)]

\* what a finished call returned, with the bytes it was given
Outcome == [input |-> input, result |-> result, stream |-> tlv_stream]

\* the next vector: `Cursor::new(...)` and `Readable::read(&mut buff)`
NextVector ==
    /\ pc = "done"
    /\ pending # <<>>
    /\ outcomes' = Append(outcomes, Outcome)
    /\ pending' = Tail(pending)
    /\ input' = Head(pending)
    /\ pos' = 0
    /\ have_read' = FALSE
    /\ attempt_pos' = 0
    /\ pc' = "loop"
    /\ rec_pc' = "type"
    /\ record_type' = Zeros(8)
    /\ length' = Zeros(8)
    /\ v' = <<>>
    /\ rec_res' = RecordErr(Pending)
    /\ tlv_stream' = <<>>
    /\ result' = Running
    /\ UNCHANGED <<bigsizeVars, messageVars>>

\* records a first part is made of: types 1, 2, 5 and 254, all valid
FirstRecords ==
    { <<1, 0>>, <<2, 8, 0, 0, 0, 0, 0, 0, 2, 38>>, <<5, 1, 7>>,
      <<253, 0, 254, 2, 2, 38>> }

\* records a second part is made of: valid ones of types 1, 2 and 5, an
\* unrecognized even type, a non-canonical type and a truncated value
SecondRecords ==
    { <<1, 1, 1>>, <<2, 8, 0, 0, 0, 0, 0, 0, 2, 38>>, <<5, 0>>,
      <<0, 0>>, <<253, 0, 1, 0>>, <<5, 1>> }

\* the concatenations of at most n of the byte strings of `records`
Concatenations(records, n) ==
    LET Flat(seq) ==
            LET F[i \in 0..Len(seq)] ==
                    IF i = 0 THEN <<>> ELSE F[i - 1] \o seq[i]
            IN  F[Len(seq)]
    IN  {Flat(seq) : seq \in UNION {[1..k -> records] : k \in 0..n}}

InitConcat ==
    /\ \E a \in Concatenations(FirstRecords, MaxParts),
          b \in Concatenations(SecondRecords, MaxParts) :
            /\ CallStarts(a)
            /\ pending = <<b, a \o b>>
    /\ outcomes = <<>>
    /\ x = Zeros(8)
    /\ writer = <<>>
    /\ bs = Zeros(8)
    /\ NoMessage

NextConcat == Next \/ NextVector

SpecConcat == InitConcat /\ [][NextConcat]_vars

\* the three decodes are over: A and B are in outcomes, A \o B is current
ConcatDone == pc = "done" /\ Len(outcomes) = 2

\* C4: with A and B non-empty and both decoding successfully, A followed
\* by B decodes successfully, to A's records followed by B's, exactly when
\* the last type of A is below the first type of B, and fails with
\* InvalidData otherwise; with A decoding successfully and B not, A
\* followed by B does not decode successfully.
C4_Concatenation ==
    ConcatDone =>
        LET A == outcomes[1]
            B == outcomes[2]
        IN  /\ input = A.input \o B.input
            /\ (A.result = Ok /\ B.result = Ok
                    /\ A.input # <<>> /\ B.input # <<>>) =>
                    /\ A.stream # <<>>
                    /\ B.stream # <<>>
                    /\ IF Lt(Last(A.stream).record_type,
                             B.stream[1].record_type)
                       THEN /\ result = Ok
                            /\ tlv_stream = A.stream \o B.stream
                       ELSE result = InvalidData
            /\ (A.result = Ok /\ B.result # Ok) => result # Ok

\* a valid part of one record and a valid part of two records with higher
\* types, joined
C4_Witness ==
    /\ ConcatDone
    /\ outcomes[1].result = Ok
    /\ outcomes[2].result = Ok
    /\ Len(outcomes[1].stream) = 1
    /\ Len(outcomes[2].stream) = 2
    /\ result = Ok
    /\ Len(tlv_stream) = 3

---------------------------------------------------------------------------
(* BigSize on its own: encode() of a value and BigSize::read of the bytes, *)
(* and BigSize::read of given bytes, as encode_bigsize and decode_bigsize  *)
(* do.  pc is "encode", then "read", then "done".                          *)

streamVars == <<have_read, attempt_pos, rec_pc, record_type, length, v,
                rec_res, tlv_stream>>

\* `let bytes = BigSize(val).encode()`, handed to a Cursor
BigSizeEncode ==
    /\ pc = "encode"
    /\ writer' = BigSizeWrite(x)
    /\ input' = writer'
    /\ pc' = "read"
    /\ UNCHANGED <<pos, result, x, bs, streamVars, harness, messageVars>>

\* `BigSize::read(&mut buff)`
BigSizeDecode ==
    /\ pc = "read"
    /\ LET r == BigSizeRead(Reader(input, pos, FALSE))
       IN  /\ pos' = r.rd.pos
           /\ result' = r.err
           /\ bs' = r.val
    /\ pc' = "done"
    /\ UNCHANGED <<input, x, writer, streamVars, harness, messageVars>>

\* digits of the sampled values and bytes: around the one-byte limit 0xfd
\* and at both ends of a byte
DigitSamples == {0, 1, 252, 253, 255}

\* a sequence of n bytes: first a, last c, all between b
Shaped(n, a, b, c) ==
    [i \in 1..n |-> IF i = 1 THEN a ELSE IF i = n THEN c ELSE b]

\* u64 values of every byte length, among them 0, 252, 253, 65535, 65536,
\* 2^32 - 1, 2^32 and 2^64 - 1
U64Samples ==
    {ZeroExtend(Shaped(n, a, b, c), 8) :
        n \in 1..8, a \in DigitSamples, b \in DigitSamples,
        c \in DigitSamples}

\* decoder inputs: a first byte, then up to 8 + MaxTrail bytes
BigSizeInputs ==
    {<<>>} \cup
    {<<p>> \o Shaped(n, a, b, c) :
        p \in {0, 252, 253, 254, 255}, n \in 0..(8 + MaxTrail),
        a \in DigitSamples, b \in DigitSamples, c \in DigitSamples}

InitBigSize ==
    /\ \/ /\ pc = "encode"
          /\ x \in U64Samples
          /\ input = <<>>
       \/ /\ pc = "read"
          /\ x = Zeros(8)
          /\ input \in BigSizeInputs
    /\ pos = 0
    /\ have_read = FALSE
    /\ attempt_pos = 0
    /\ rec_pc = "type"
    /\ record_type = Zeros(8)
    /\ length = Zeros(8)
    /\ v = <<>>
    /\ rec_res = RecordErr(Pending)
    /\ tlv_stream = <<>>
    /\ result = Running
    /\ writer = <<>>
    /\ bs = Zeros(8)
    /\ pending = <<>>
    /\ outcomes = <<>>
    /\ NoMessage

NextBigSize == BigSizeEncode \/ BigSizeDecode

SpecBigSize == InitBigSize /\ [][NextBigSize]_vars

\* the run encoded x and read the bytes back
RoundTripDone == pc = "done" /\ writer # <<>>

\* C5: BigSize::read on the bytes of BigSize(x).encode() succeeds, returns
\* x and has consumed all of the bytes.
C5_RoundTrip ==
    RoundTripDone =>
        /\ input = writer
        /\ result = Ok
        /\ bs = x
        /\ pos = Len(writer)

\* 0xfd, the least value of the three-byte form, came back
C5_Witness ==
    /\ RoundTripDone
    /\ x = Bound_fd
    /\ bs = x
    /\ pos = 3

\* C6: whenever BigSize::read succeeds and returns bs, the bytes it
\* consumed are BigSize(bs).encode(): a value has one accepted encoding.
C6_CanonicalUnique ==
    (pc = "done" /\ result = Ok) =>
        SubSeq(input, 1, pos) = BigSizeWrite(bs)

\* given bytes (not encoded by the run) decoded as a nine-byte BigSize,
\* with a byte left over
C6_Witness ==
    /\ pc = "done"
    /\ writer = <<>>
    /\ result = Ok
    /\ pos = 9
    /\ Len(input) > pos

\* the first 8 - w digits of a u64 are zero: it fits w bytes
Fits(u, w) == \A i \in 1..(8 - w) : u[i] = 0

\* C8: encode() yields the byte x below 0xfd; 0xfd and the 2 low bytes of
\* x from 0xfd to 0xffff; 0xfe and the 4 low bytes from 0x10000 to
\* 0xffffffff; 0xff and the 8 bytes of x above; with 252, 253, 65535,
\* 65536, 2^32 - 1 and 2^32 encoded as the test vectors give.
C8_EncodeLayout ==
    writer # <<>> =>
        /\ IF Fits(x, 1) /\ x[8] < 253
           THEN writer = <<x[8]>>
           ELSE IF Fits(x, 2)
           THEN writer = <<253, x[7], x[8]>>
           ELSE IF Fits(x, 4)
           THEN writer = <<254, x[5], x[6], x[7], x[8]>>
           ELSE writer = <<255>> \o x
        /\ x = U64Of(252) => writer = <<252>>
        /\ x = U64Of(253) => writer = <<253, 0, 253>>
        /\ x = U64Of(65535) => writer = <<253, 255, 255>>
        /\ x = <<0, 0, 0, 0, 0, 1, 0, 0>> => writer = <<254, 0, 1, 0, 0>>
        /\ x = <<0, 0, 0, 0, 255, 255, 255, 255>>
                => writer = <<254, 255, 255, 255, 255>>
        /\ x = <<0, 0, 0, 1, 0, 0, 0, 0>>
                => writer = <<255, 0, 0, 0, 1, 0, 0, 0, 0>>

\* 65536 was encoded in five bytes
C8_Witness ==
    /\ x = Bound_10000
    /\ writer = <<254, 0, 1, 0, 0>>

---------------------------------------------------------------------------
(* A stream of one type-1 record with every payload over AmountBytes.      *)

AmountBytes == {0, 1, 255}

\* the type 1, the length n and every payload of n bytes
AmountInputs(n) ==
    {<<1, n>> \o payload : payload \in [1..n -> AmountBytes]}

InitAmount ==
    /\ \E n \in 0..MaxAmountLen :
            \E bytes \in AmountInputs(n) : CallStarts(bytes)
    /\ Idle

SpecAmount == InitAmount /\ [][Next]_vars

\* TLVRecord::read has read a whole type-1 record and returned
AmountReturned == rec_pc = "returned" /\ record_type = U64Of(1)

\* the payload of the one record of an input of AmountInputs
AmountPayload == SubSeq(input, 3, Len(input))

\* C9: a type-1 payload of 1 to 8 bytes decodes, to the big-endian value
\* zero-extended on the left, exactly when its first byte is not zero
\* (the value is at least 2^(8*(n-1))), and fails with InvalidData
\* otherwise; a payload of more than 8 bytes fails with InvalidData.  The
\* stream of that one record returns the record, or InvalidData.
C9_AmountMinimal ==
    /\ (AmountReturned /\ Len(v) >= 1) =>
            /\ Len(v) = NatOf(length)
            /\ v = AmountPayload
            /\ IF Len(v) <= 8 /\ v[1] # 0
               THEN /\ rec_res = RecordOk(TLVRecord(record_type, length,
                                    Value("Amount", ZeroExtend(v, 8))))
                    /\ ~Lt(ZeroExtend(v, 8), MinAmount(Len(v)))
                    /\ pc = "loop" => tlv_stream = <<rec_res.record>>
               ELSE /\ rec_res = RecordErr(InvalidData)
                    /\ Len(v) <= 8 => Lt(ZeroExtend(v, 8), MinAmount(Len(v)))
                    /\ pc = "done" => result = InvalidData
    /\ (pc = "done" /\ AmountPayload # <<>>) =>
            IF Len(AmountPayload) <= 8 /\ AmountPayload[1] # 0
            THEN /\ result = Ok
                 /\ tlv_stream =
                        << TLVRecord(U64Of(1), U64Of(Len(AmountPayload)),
                             Value("Amount", ZeroExtend(AmountPayload, 8))) >>
            ELSE /\ result = InvalidData
                 /\ tlv_stream = <<>>

\* an 8-byte payload with a non-zero first byte decoded and was returned
C9_Witness ==
    /\ pc = "done"
    /\ Len(AmountPayload) = 8
    /\ AmountPayload[1] # 0
    /\ result = Ok
    /\ tlv_stream # <<>>
    /\ tlv_stream[1].value = Value("Amount", AmountPayload)

\* C10: a type-1 record with a zero-length payload decodes successfully
\* and its value is the amount 0.
C10_ZeroLengthAmount ==
    (AmountReturned /\ length = Zeros(8)) =>
        /\ rec_res.err = Ok
        /\ rec_res.record.value = Value("Amount", Zeros(8))

---------------------------------------------------------------------------
(* Properties of TLVStream::read, checked under Spec.                      *)

\* the record types of a stream are strictly increasing
Ascending(stream) ==
    \A i \in 1..(Len(stream) - 1) :
        Lt(stream[i].record_type, stream[i + 1].record_type)

\* TLVRecord::read returned Ok(record) in the current attempt
RecordDecoded == pc \in {"match", "loop", "done"} /\ rec_res.err = Ok

\* C1: the records pushed so far always have strictly increasing types,
\* so a returned TLVStream is ascending and free of duplicates; and once a
\* record decoded successfully, whatever its value (an Unknown one and a
\* type-1 record with no value included), it is pushed only with a type
\* above the last pushed one: otherwise the call is over with InvalidData
\* and the record is not pushed.
C1_StrictlyIncreasing ==
    /\ Ascending(tlv_stream)
    /\ (pc = "loop" /\ rec_res.err = Ok) =>
            /\ tlv_stream # <<>>
            /\ Last(tlv_stream) = rec_res.record
    /\ (pc = "done" /\ rec_res.err = Ok) =>
            /\ result = InvalidData
            /\ tlv_stream # <<>>
            /\ ~Lt(Last(tlv_stream).record_type, rec_res.record.record_type)
    /\ result = Ok => pc = "done"

\* an ignored record is followed by a type-1 record without a value whose
\* type is not above it: the decode failed with InvalidData
C1_Witness ==
    /\ pc = "done"
    /\ result = InvalidData
    /\ rec_res.err = Ok
    /\ rec_res.record.value = None
    /\ tlv_stream # <<>>
    /\ Last(tlv_stream).value.kind = "Unknown"

\* the bytes of the input from the start of the current attempt
Rest == SubSeq(input, attempt_pos + 1, Len(input))

\* the width of a BigSize field by its first byte
FieldWidth(b) ==
    IF b = 253 THEN 3 ELSE IF b = 254 THEN 5 ELSE IF b = 255 THEN 9 ELSE 1

\* a complete BigSize field at the head of `bytes` is canonical
FieldCanonical(bytes) ==
    /\ bytes[1] = 253 => ~(bytes[2] = 0 /\ bytes[3] < 253)
    /\ bytes[1] = 254 => ~(bytes[2] = 0 /\ bytes[3] = 0)
    /\ bytes[1] = 255 =>
            ~(bytes[2] = 0 /\ bytes[3] = 0 /\ bytes[4] = 0 /\ bytes[5] = 0)

\* the input ends inside the BigSize field at the head of `bytes`
FieldTruncated(bytes) == bytes # <<>> /\ Len(bytes) < FieldWidth(bytes[1])

AfterField(bytes) == SubSeq(bytes, FieldWidth(bytes[1]) + 1, Len(bytes))

\* the attempt got at least one byte, and the input ends in its type
\* field, or right after a canonical type field, or in its length field
EndsInHeader(bytes) ==
    /\ bytes # <<>>
    /\ \/ FieldTruncated(bytes)
       \/ /\ FieldCanonical(bytes)
          /\ \/ AfterField(bytes) = <<>>
             \/ FieldTruncated(AfterField(bytes))

\* C2: when the call is over and its last attempt found no byte left, it
\* succeeded (with the records pushed so far); when that attempt got at
\* least one byte and the input ended inside the type or the length
\* field, it failed with ShortRead.
C2_EndOfInput ==
    pc = "done" =>
        /\ Rest = <<>> =>
                /\ result = Ok
                /\ ~have_read
                /\ pos = Len(input)
        /\ EndsInHeader(Rest) =>
                /\ result = ShortRead
                /\ have_read

\* a record was pushed and the next one stops inside its header
C2_Witness ==
    /\ pc = "done"
    /\ tlv_stream # <<>>
    /\ EndsInHeader(Rest)
    /\ result = ShortRead

RecognizedTypes == {U64Of(1), U64Of(2), U64Of(3), U64Of(254)}

\* the value bytes of the current record, as they stand in the input
PayloadInInput == SubSeq(input, pos - Len(v) + 1, pos)

\* C3: once TLVRecord::read has read a whole record (type, length and
\* value bytes) of an unrecognized type and returned: an even type gave
\* Err(UnknownRequiredFeature), which is also what the stream returns, and
\* no record; an odd type gave Ok with the value Unknown(raw bytes), the
\* bytes being those of the input.  No record of an unrecognized even type
\* is ever in the stream, and every Unknown record has an unrecognized odd
\* type.
C3_UnknownParity ==
    /\ (rec_pc = "returned" /\ record_type \notin RecognizedTypes) =>
            IF IsEven(record_type)
            THEN /\ rec_res = RecordErr(UnknownRequiredFeature)
                 /\ pc = "done" => result = UnknownRequiredFeature
            ELSE /\ rec_res.err = Ok
                 /\ rec_res.record.record_type = record_type
                 /\ rec_res.record.length = length
                 /\ rec_res.record.value = Value("Unknown", PayloadInInput)
                 /\ Len(PayloadInInput) = NatOf(length)
    /\ \A i \in 1..Len(tlv_stream) :
            /\ tlv_stream[i].record_type \notin RecognizedTypes
                    => ~IsEven(tlv_stream[i].record_type)
            /\ tlv_stream[i].value.kind = "Unknown"
                    <=> tlv_stream[i].record_type \notin RecognizedTypes

\* an unrecognized odd record with a non-empty payload was kept
C3_Witness ==
    /\ rec_pc = "returned"
    /\ record_type \notin RecognizedTypes
    /\ ~IsEven(record_type)
    /\ v # <<>>
    /\ tlv_stream # <<>>
    /\ Last(tlv_stream).value = Value("Unknown", v)

\* the header of the current attempt holds a complete BigSize field that
\* is not canonical: its type field, or the length field after a canonical
\* type field
NonCanonicalHeader(bytes) ==
    /\ bytes # <<>>
    /\ ~FieldTruncated(bytes)
    /\ \/ ~FieldCanonical(bytes)
       \/ /\ AfterField(bytes) # <<>>
          /\ ~FieldTruncated(AfterField(bytes))
          /\ ~FieldCanonical(AfterField(bytes))

\* C7: a TLV stream whose type or length field is a non-canonical BigSize
\* fails with DecodeError::InvalidData.
C7_NonCanonicalInvalidData ==
    (pc = "done" /\ NonCanonicalHeader(Rest)) => result = InvalidData

---------------------------------------------------------------------------
(* The decoders of an exact length: a stream of one record of type 2, 3 or *)
(* 254 with a payload of every length up to MaxOver bytes above the        *)
(* required one, alone or after a type-1 record.                           *)

\* the type field and the required payload length of decode_tlv2!,
\* PointAmount::new and decode_tlv4!
ExactDecoders ==
    { [field |-> <<2>>, required |-> 8],
      [field |-> <<3>>, required |-> 49],
      [field |-> <<253, 0, 254>>, required |-> 2] }

\* first bytes of the payloads: 2 announces a compressed point, 4 does not
PayloadHeads == {2, 4}

ExactInputs ==
    {before \o d.field \o <<n>> \o Shaped(n, a, 1, 38) :
        before \in {<<>>, <<1, 1, 1>>}, d \in ExactDecoders,
        n \in 0..(49 + MaxOver), a \in PayloadHeads}

InitExact ==
    /\ \E bytes \in ExactInputs : CallStarts(bytes)
    /\ Idle

SpecExact == InitExact /\ [][Next]_vars

\* the payload length a type requires, for the types 2, 3 and 254
RequiredLength(type) ==
    IF type = U64Of(2) THEN 8 ELSE IF type = U64Of(3) THEN 49 ELSE 2

\* the Value variant a type decodes to, for the types 2, 3 and 254
ExactKind(type) ==
    IF type = U64Of(2) THEN "ShortChannelId"
    ELSE IF type = U64Of(3) THEN "PointAmount" ELSE "CLTVExpiry"

ExactTypes == {U64Of(2), U64Of(3), U64Of(254)}

\* C11: once TLVRecord::read has read a whole record of type 2, 3 or 254
\* and returned: a payload shorter than the required length (8, 49, 2),
\* the empty one included, gave Err(ShortRead), and the stream returns
\* ShortRead; a longer one gave Err(InvalidData), and the stream returns
\* InvalidData; Ok was returned only for the required length, with the
\* value of the type and never an absent one.  Every record of these
\* types in the stream has the required length.
C11_ExactLength ==
    /\ (rec_pc = "returned" /\ record_type \in ExactTypes) =>
            /\ Len(v) = NatOf(length)
            /\ Len(v) < RequiredLength(record_type) =>
                    /\ rec_res = RecordErr(ShortRead)
                    /\ pc = "done" => result = ShortRead
            /\ Len(v) > RequiredLength(record_type) =>
                    /\ rec_res = RecordErr(InvalidData)
                    /\ pc = "done" => result = InvalidData
            /\ rec_res.err = Ok =>
                    /\ Len(v) = RequiredLength(record_type)
                    /\ rec_res.record.value =
                            Value(ExactKind(record_type), v)
    /\ \A i \in 1..Len(tlv_stream) :
            tlv_stream[i].record_type \in ExactTypes =>
                /\ tlv_stream[i].length =
                        U64Of(RequiredLength(tlv_stream[i].record_type))
                /\ tlv_stream[i].value.kind =
                        ExactKind(tlv_stream[i].record_type)

\* a type-2 record with an empty payload ended the stream with ShortRead
C11_Witness ==
    /\ pc = "done"
    /\ rec_pc = "returned"
    /\ record_type = U64Of(2)
    /\ length = Zeros(8)
    /\ rec_res = RecordErr(ShortRead)
    /\ result = ShortRead

---------------------------------------------------------------------------
(* Rendering: Display for TLVStream and TLVRecord, LowerHex for Value.  A  *)
(* text is the sequence of its hex digits, each a number from 0 to 15.     *)

\* `{:02x}` of each byte in turn
Nibbles(bytes) ==
    [i \in 1..(2 * Len(bytes)) |->
        IF i % 2 = 1 THEN bytes[(i + 1) \div 2] \div 16
                     ELSE bytes[i \div 2] % 16]

\* the digits `{:x}` writes for an unsigned integer: no leading zero, and
\* one digit for zero
Minimal(digits) ==
    IF \A i \in 1..Len(digits) : digits[i] = 0
    THEN <<0>>
    ELSE SubSeq(digits,
                CHOOSE i \in 1..Len(digits) :
                    /\ digits[i] # 0
                    /\ \A j \in 1..(i - 1) : digits[j] = 0,
                Len(digits))

\* the flag 0 with a width: zeros on the left up to the width, and no
\* digit dropped
Pad(digits, width) ==
    IF Len(digits) >= width THEN digits
    ELSE Zeros(width - Len(digits)) \o digits

\* LowerHex for an unsigned integer (u16, u64) given as its bytes, under a
\* formatter with the flag 0 and the width `width`
IntLowerHex(bytes, width) == Pad(Minimal(Nibbles(bytes)), width)

\* a LowerHex for Value that drops the formatter's width and flag
ValueLowerHexNoPad(value, width) ==
    IF value.kind = "Amount" THEN Minimal(Nibbles(value.data))
    ELSE IF value.kind = "ShortChannelId" THEN Nibbles(value.data)
    ELSE IF value.kind = "PointAmount"
    THEN Nibbles(SubSeq(value.data, 1, 33))
            \o IntLowerHex(SubSeq(value.data, 34, 41), 16)
            \o IntLowerHex(SubSeq(value.data, 42, 49), 16)
    ELSE Minimal(Nibbles(value.data))

\* LowerHex for Value under a formatter with the flag 0 and the width
\* `width`.  The integers' `v.fmt(f)` is the LowerHex of this impl's
\* formatter; write! of the bytes starts a formatter of its own.
\* The point is written as the 33 bytes PublicKey::serialize gives, which
\* are those from_slice accepted.  Value::Unknown is unimplemented!(), and
\* Display for TLVRecord never gets there.
ValueLowerHex(value, width) ==
    IF value.kind = "Amount" THEN IntLowerHex(value.data, width)
    ELSE IF value.kind = "ShortChannelId" THEN Nibbles(value.data)
    ELSE IF value.kind = "PointAmount"
    THEN Nibbles(SubSeq(value.data, 1, 33))
            \o IntLowerHex(SubSeq(value.data, 34, 41), 16)
            \o IntLowerHex(SubSeq(value.data, 42, 49), 16)
    ELSE IntLowerHex(value.data, width)

\* BigSize's write_fmt, which src/src/bigsize.rs does not hold: the hex
\* of the encoding, as the expected texts of the tests are
BigSizeWriteFmt(x64) == Nibbles(BigSizeWrite(x64))

\* `(self.length.0 * 2) as usize`, for the length of a decoded record
\* (always below 2^16 with the inputs of the model)
WidthOf(len64) == NatOf(len64) * 2

\* a Display for TLVRecord that writes an ignored record like the others,
\* its value as the raw bytes
TLVRecordDisplayAll(record) ==
    BigSizeWriteFmt(record.record_type)
        \o BigSizeWriteFmt(record.length)
        \o (IF record.value.kind = "Unknown" THEN Nibbles(record.value.data)
            ELSE IF record.value # None
            THEN ValueLowerHex(record.value, WidthOf(record.length))
            ELSE <<>>)

\* Display for TLVRecord
TLVRecordDisplay(record) ==
    IF record.value.kind = "Unknown" THEN <<>>
    ELSE BigSizeWriteFmt(record.record_type)
            \o BigSizeWriteFmt(record.length)
            \o (IF record.value # None
                THEN ValueLowerHex(record.value, WidthOf(record.length))
                ELSE <<>>)

\* Display for TLVStream: every record in turn
TLVStreamDisplay(stream) ==
    LET F[i \in 0..Len(stream)] ==
            IF i = 0 THEN <<>> ELSE F[i - 1] \o TLVRecordDisplay(stream[i])
    IN  F[Len(stream)]

\* `stream.to_string()` on the stream that `.expect("no failure")` gave
to_string ==
    /\ pc = "done"
    /\ result = Ok
    /\ rendered' = TLVStreamDisplay(tlv_stream)
    /\ pc' = "rendered"
    /\ UNCHANGED <<source, attempt_pos, rec_pc, recordLocals, rec_res>>
    /\ UNCHANGED <<tlv_stream, result, bigsizeVars, harness, msg, msg_res>>

\* a compressed point as the fixed test vector has it: the byte 2, then
\* 32 bytes
PointBytes == Shaped(33, 2, 61, 235)

\* records the rendered streams are made of.  Recognized types: amounts
\* of 0, 1, 2, 3 and 8 bytes, a short channel id, a point with two
\* amounts, and two expiries; unrecognized odd types 5, 33, 255 and 513;
\* the unrecognized even type 0.
RenderRecords ==
    { <<1, 0>>, <<1, 1, 1>>, <<1, 2, 1, 0>>, <<1, 3, 15, 0, 10>>,
      <<1, 8, 1, 0, 0, 0, 0, 0, 0, 0>>,
      <<2, 8, 0, 0, 0, 0, 0, 0, 2, 38>>,
      <<3, 49>> \o PointBytes \o U64Of(1) \o U64Of(2),
      <<253, 0, 254, 2, 2, 38>>, <<253, 0, 254, 2, 0, 0>>,
      <<5, 1, 7>>, <<33, 0>>, <<253, 0, 255, 0>>, <<253, 2, 1, 2, 1, 2>>,
      <<0, 0>> }

InitRender ==
    /\ \E bytes \in Concatenations(RenderRecords, MaxRecords) :
            CallStarts(bytes)
    /\ Idle

NextRender == Next \/ to_string

SpecRender == InitRender /\ [][NextRender]_vars

\* to_string() returned
Rendered == pc = "rendered"

IsUnknown(record) == record.value.kind = "Unknown"

\* the payload bytes a kept record was decoded from
PayloadOf(record) ==
    IF record.value = None THEN <<>>
    ELSE Truncate(record.value.data, NatOf(record.length))

\* the bytes of a record: encoded type, encoded length, payload
EncodedRecord(record) ==
    BigSizeWrite(record.record_type) \o BigSizeWrite(record.length)
        \o PayloadOf(record)

\* the bytes of the records of a stream, one after the other
EncodedStream(stream) ==
    LET F[i \in 0..Len(stream)] ==
            IF i = 0 THEN <<>> ELSE F[i - 1] \o EncodedRecord(stream[i])
    IN  F[Len(stream)]

\* C12: the text of a decoded stream is the hex of the bytes of its
\* records that are not Unknown, in their order, and nothing else: the
\* Unknown records leave no trace in it, and a stream of Unknown records
\* only renders as the empty string.
C12_RenderOmitsUnknown ==
    Rendered =>
        /\ rendered = Nibbles(EncodedStream(SelectSeq(tlv_stream,
                                    LAMBDA r : ~IsUnknown(r))))
        /\ (\A i \in 1..Len(tlv_stream) : IsUnknown(tlv_stream[i]))
                => rendered = <<>>

\* an ignored record, an expiry and another ignored record rendered as
\* the expiry alone
C12_Witness ==
    /\ Rendered
    /\ Len(tlv_stream) = 3
    /\ IsUnknown(tlv_stream[1])
    /\ tlv_stream[2].record_type = U64Of(254)
    /\ IsUnknown(tlv_stream[3])
    /\ rendered = Nibbles(<<253, 0, 254, 2, 2, 38>>)

\* C14: the text of a decoded stream whose records all have a recognized
\* type (1, 2, 3, 254) is the hex of the input, two digits for each byte;
\* the stream `01 00` renders as 0100.
C14_RenderRoundTrip ==
    Rendered =>
        /\ (\A i \in 1..Len(tlv_stream) :
                tlv_stream[i].record_type \in RecognizedTypes)
                => rendered = Nibbles(input)
        /\ input = <<1, 0>> => rendered = <<0, 1, 0, 0>>

\* a three-byte amount whose first hex digit is 0, a point and an expiry
\* of 0 were rendered as the input
C14_Witness ==
    /\ Rendered
    /\ Len(tlv_stream) = 3
    /\ tlv_stream[1].value = Value("Amount", <<0, 0, 0, 0, 0, 15, 0, 10>>)
    /\ tlv_stream[2].value.kind = "PointAmount"
    /\ tlv_stream[3].value = Value("CLTVExpiry", <<0, 0>>)
    /\ rendered = Nibbles(input)

---------------------------------------------------------------------------
(* src/src/msgs.rs: Init::read, one action per field, then the trailing    *)
(* TLVStream::read (the actions of Next) on the same Cursor, and           *)
(* to_string().  pc is the field being read ("typ", "gflen",               *)
(* "global_features", "flen", "features"), then that of TLVStream::read,   *)
(* then "msg_done" once Init::read returned, and "rendered".               *)

streamLocals == <<have_read, attempt_pos, rec_pc, recordLocals, rec_res,
                  tlv_stream, result>>

\* `let <field>: u16 = Readable::read(reader)?`, given what the read gave
ReadU16Field(field, next, r) ==
    /\ pos' = r.rd.pos
    /\ IF r.err = Ok
       THEN /\ msg' = [msg EXCEPT ![field] = r.val]
            /\ pc' = next
            /\ UNCHANGED msg_res
       ELSE /\ msg_res' = r.err
            /\ pc' = "msg_done"
            /\ UNCHANGED msg
    /\ UNCHANGED <<input, streamLocals, bigsizeVars, harness, rendered>>

\* `let <field>: Vec<u8> = FixedLengthReadable::read(reader, len as
\* usize)?`, given what the read gave
ReadBytesField(field, next, r) ==
    /\ pos' = r.rd.pos
    /\ IF r.err = Ok
       THEN /\ msg' = [msg EXCEPT ![field] = r.val]
            /\ pc' = next
            /\ UNCHANGED msg_res
       ELSE /\ msg_res' = r.err
            /\ pc' = "msg_done"
            /\ UNCHANGED msg
    /\ UNCHANGED <<input, streamLocals, bigsizeVars, harness, rendered>>

\* `let typ: u16 = Readable::read(reader)?`
ReadTyp ==
    /\ pc = "typ"
    /\ ReadU16Field("typ", "gflen", ReadInt(Reader(input, pos, FALSE), 2))

\* `let gflen: u16 = Readable::read(reader)?`
ReadGflen ==
    /\ pc = "gflen"
    /\ ReadU16Field("gflen", "global_features",
                    ReadInt(Reader(input, pos, FALSE), 2))

\* `let global_features: Vec<u8> = FixedLengthReadable::read(reader,
\* gflen as usize)?`
ReadGlobalFeatures ==
    /\ pc = "global_features"
    /\ ReadBytesField("global_features", "flen",
            FixedLengthRead(Reader(input, pos, FALSE),
                            ZeroExtend(msg.gflen, 8)))

\* `let flen: u16 = Readable::read(reader)?`
ReadFlen ==
    /\ pc = "flen"
    /\ ReadU16Field("flen", "features",
                    ReadInt(Reader(input, pos, FALSE), 2))

\* `let features: Vec<u8> = FixedLengthReadable::read(reader, flen as
\* usize)?`; TLVStream::read is called next
ReadFeatures ==
    /\ pc = "features"
    /\ ReadBytesField("features", "loop",
            FixedLengthRead(Reader(input, pos, FALSE),
                            ZeroExtend(msg.flen, 8)))

\* the `?` of `let init_tlvs: TLVStream = Readable::read(reader)?` and
\* `Ok(Init { ... })`
InitReturn ==
    /\ pc = "done"
    /\ msg_res' = result
    /\ pc' = "msg_done"
    /\ UNCHANGED <<source, streamLocals, bigsizeVars, harness, msg, rendered>>

\* LowerHex for Init, which Display for Init calls
InitLowerHex(m, init_tlvs) ==
    IntLowerHex(m.typ, 4)
        \o IntLowerHex(m.gflen, 4)
        \o Nibbles(m.global_features)
        \o IntLowerHex(m.flen, 4)
        \o Nibbles(m.features)
        \o TLVStreamDisplay(init_tlvs)

\* `msg.to_string()` on the Init that `.expect("no failure")` gave
msg_to_string ==
    /\ pc = "msg_done"
    /\ msg_res = Ok
    /\ rendered' = InitLowerHex(msg, tlv_stream)
    /\ pc' = "rendered"
    /\ UNCHANGED <<source, streamLocals, bigsizeVars, harness, msg, msg_res>>

\* the fields before the TLV stream: typ 16, then global features and
\* features of 0, 1 and 2 bytes, and a length of 256 with one byte
MsgHeaders ==
    {<<0, 16>> \o <<0, g>> \o Shaped(g, 8, 0, 2) \o <<0, f>>
            \o Shaped(f, 255, 0, 1) : g \in 0..2, f \in 0..2}
    \cup {<<0, 16, 1, 0, 7>>, <<0, 16, 0, 0, 1, 0, 7>>}

\* the trailing TLV streams: those of valid_init_msgs and
\* invalid_init_msgs, and streams of recognized records
MsgTlvs ==
    { <<>>, <<201, 1, 42, 203, 1, 4>>, <<1>>, <<202, 1, 42>>,
      <<201, 1, 1, 201, 1, 2>>, <<1, 0>>, <<1, 1, 1>>, <<1, 2, 0, 1>>,
      <<2, 8, 0, 0, 0, 0, 0, 0, 2, 38>>, <<1, 1, 1, 253, 0, 254, 2, 2, 38>>,
      <<253, 0, 1, 0>>, <<1, 1, 1, 0, 0>>, <<201, 0, 1, 1, 1>> }

MsgInputs ==
    {CutEnd(h \o t, k) : h \in MsgHeaders, t \in MsgTlvs, k \in 0..MaxCut}

\* `Cursor::new(...)` and the call of Init::read; TLVStream::read's
\* locals are as its call will find them
InitMsg ==
    /\ input \in MsgInputs
    /\ pos = 0
    /\ have_read = FALSE
    /\ attempt_pos = 0
    /\ pc = "typ"
    /\ rec_pc = "type"
    /\ record_type = Zeros(8)
    /\ length = Zeros(8)
    /\ v = <<>>
    /\ rec_res = RecordErr(Pending)
    /\ tlv_stream = <<>>
    /\ result = Running
    /\ Idle

NextMsg ==
    \/ ReadTyp
    \/ ReadGflen
    \/ ReadGlobalFeatures
    \/ ReadFlen
    \/ ReadFeatures
    \/ Next
    \/ InitReturn
    \/ msg_to_string

SpecMsg == InitMsg /\ [][NextMsg]_vars

\* C13: the text of every Init that Init::read decoded is the hex of the
\* input bytes, those of the trailing TLV records included.
C13_InitRoundTrip ==
    (Rendered /\ msg_res = Ok) => rendered = Nibbles(input)

\* Init::read returned
MsgDone == pc \in {"msg_done", "rendered"}

\* C15: a failure of TLVRecord::read that is not the clean end of the
\* stream is what TLVStream::read returns, and Init::read returns what
\* its failing field read returned (ShortRead) or what the trailing
\* TLVStream::read returned; the three inputs of invalid_init_msgs give
\* ShortRead, UnknownRequiredFeature and InvalidData.
C15_ErrorsPassThrough ==
    /\ (pc \in {"done", "msg_done"} /\ rec_res.err \notin {Ok, Pending}) =>
            IF rec_res.err = ShortRead /\ pos = attempt_pos
            THEN result = Ok
            ELSE result = rec_res.err
    /\ MsgDone =>
            IF result = Running
            THEN msg_res = ShortRead /\ pos = Len(input)
            ELSE msg_res = result
    /\ (MsgDone /\ input = <<0, 16, 0, 0, 0, 0, 1>>)
            => msg_res = ShortRead
    /\ (MsgDone /\ input = <<0, 16, 0, 0, 0, 0, 202, 1, 42>>)
            => msg_res = UnknownRequiredFeature
    /\ (MsgDone /\ input = <<0, 16, 0, 0, 0, 0, 201, 1, 1, 201, 1, 2>>)
            => msg_res = InvalidData

\* after a record was kept, the trailing stream of an Init failed with
\* UnknownRequiredFeature, and so did Init::read
C15_Witness ==
    /\ pc = "msg_done"
    /\ tlv_stream # <<>>
    /\ rec_res.err = UnknownRequiredFeature
    /\ result = UnknownRequiredFeature
    /\ msg_res = UnknownRequiredFeature

---------------------------------------------------------------------------
(* Properties of TLVRecord::read on truncated and on whole records,        *)
(* checked under Spec.                                                     *)

\* the u64 of the complete BigSize field at the head of `bytes`
FieldValue(bytes) ==
    IF FieldWidth(bytes[1]) = 1 THEN U64Of(bytes[1])
    ELSE ZeroExtend(SubSeq(bytes, 2, FieldWidth(bytes[1])), 8)

\* `bytes` starts with a complete canonical BigSize field
WholeField(bytes) ==
    /\ bytes # <<>>
    /\ ~FieldTruncated(bytes)
    /\ FieldCanonical(bytes)

\* `bytes` starts with a whole type field, and then ends inside the
\* length field or holds fewer bytes than the length field declares
TruncatedRecord(bytes) ==
    /\ WholeField(bytes)
    /\ \/ AfterField(bytes) = <<>>
       \/ FieldTruncated(AfterField(bytes))
       \/ /\ WholeField(AfterField(bytes))
          /\ Lt(U64Of(Len(AfterField(AfterField(bytes)))),
                FieldValue(AfterField(bytes)))

\* C16: when the input ends inside the length field of a record, or
\* holds fewer value bytes than the length declares, whatever the type,
\* TLVRecord::read fails with ShortRead before its value decoder and its
\* parity rule are reached, and TLVStream::read fails with ShortRead.
C16_TruncatedRecord ==
    (pc = "done" /\ TruncatedRecord(Rest)) =>
        /\ rec_res = RecordErr(ShortRead)
        /\ rec_pc \in {"length", "value"}
        /\ result = ShortRead

\* the value bytes of the current record are read
ValueRead == rec_pc \in {"decode", "returned"}

\* C17: the length of a record is the number of payload bytes read from
\* the source for it: once the value bytes of an attempt are read they
\* are `length` bytes of the input, right after the type and length
\* fields; the bytes consumed when a record is pushed, and when the
\* stream is returned, are those of the pushed records (encoded type,
\* encoded length and `length` payload bytes each); an Unknown value
\* holds `length` bytes, and a record without a value has length 0 and
\* type 1.
C17_RecordLength ==
    /\ ValueRead =>
            /\ IsSmall(length)
            /\ Len(v) = NatOf(length)
            /\ v = PayloadInInput
            /\ SubSeq(input, attempt_pos + 1, pos) =
                    BigSizeWrite(record_type) \o BigSizeWrite(length) \o v
    /\ (pc = "loop" \/ (pc = "done" /\ result = Ok)) =>
            SubSeq(input, 1, pos) = EncodedStream(tlv_stream)
    /\ \A i \in 1..Len(tlv_stream) :
            /\ IsSmall(tlv_stream[i].length)
            /\ IsUnknown(tlv_stream[i]) =>
                    Len(tlv_stream[i].value.data) =
                        NatOf(tlv_stream[i].length)
            /\ tlv_stream[i].value = None =>
                    /\ tlv_stream[i].length = Zeros(8)
                    /\ tlv_stream[i].record_type = U64Of(1)

\* a type-1 record without a value and an ignored record with a payload
\* of one byte were returned
C17_Witness ==
    /\ pc = "done"
    /\ result = Ok
    /\ Len(tlv_stream) = 2
    /\ tlv_stream[1].value = None
    /\ IsUnknown(tlv_stream[2])
    /\ tlv_stream[2].length = U64Of(1)
    /\ pos = 5

\* an attempt is running or the call ended in one
InAttempt == pc \in {"record", "match", "done"}

\* C18: when TLVRecord::read is entered have_read is false, whatever the
\* earlier attempts consumed; during the attempt and after it have_read
\* is true exactly when the source has delivered at least one byte to
\* this attempt (so a read of no byte does not set it, and once set it
\* stays); and a call whose last attempt got no byte, after any number
\* of whole records, returns Ok with the input consumed.
C18_PerAttemptTracking ==
    /\ (pc = "record" /\ rec_pc = "type") =>
            /\ ~have_read
            /\ pos = attempt_pos
    /\ InAttempt => (have_read <=> pos > attempt_pos)
    /\ (pc = "done" /\ ~have_read) =>
            /\ result = Ok
            /\ pos = Len(input)
            /\ rec_res = RecordErr(ShortRead)

\* after two whole records, the third attempt ran into the end of the
\* input without a byte, and the call returned the two records
C18_Witness ==
    /\ pc = "done"
    /\ Len(tlv_stream) = 2
    /\ attempt_pos = Len(input)
    /\ attempt_pos > 0
    /\ ~have_read
    /\ result = Ok

\* C19: when TLVRecord::read failed with UnknownRequiredFeature, the type
\* is even and unrecognized and the source stands right after the
\* record: after its type field, its length field and as many value
\* bytes as the length field of the input declares, so at the start of
\* the next record, and it is not read further.
C19_UnknownRequiredPosition ==
    rec_res.err = UnknownRequiredFeature =>
        /\ IsEven(record_type)
        /\ record_type \notin RecognizedTypes
        /\ WholeField(Rest)
        /\ WholeField(AfterField(Rest))
        /\ IsSmall(FieldValue(AfterField(Rest)))
        /\ pos = attempt_pos + FieldWidth(Rest[1])
                    + FieldWidth(AfterField(Rest)[1])
                    + NatOf(FieldValue(AfterField(Rest)))
        /\ pc = "done" => result = UnknownRequiredFeature

\* a record of an unrecognized even type with a payload of two bytes
\* failed, and the bytes of another record are left after it
C19_Witness ==
    /\ pc = "done"
    /\ rec_res.err = UnknownRequiredFeature
    /\ Len(v) = 2
    /\ pos = attempt_pos + 4
    /\ pos < Len(input)

\* the type of the current attempt is read and is not above the type of
\* the last pushed record
TypeNotAbove ==
    /\ rec_pc # "type"
    /\ tlv_stream # <<>>
    /\ ~Lt(Last(tlv_stream).record_type, record_type)

\* C20: when the call is over, the ordering error (InvalidData with a
\* record that decoded) is only given for a record that TLVRecord::read
\* returned Ok for; a record that is invalid gives its own error, also
\* when its type is not above the last one: UnknownRequiredFeature for a
\* whole record of an unrecognized even type, ShortRead for a record cut
\* short, and in general what TLVRecord::read returned.  The records
\* before the failing one all decoded and are in order: the pushed
\* records are the input up to the start of the attempt that failed.
C20_OrderOfChecks ==
    pc = "done" =>
        /\ rec_res.err = Ok =>
                /\ result = InvalidData
                /\ TypeNotAbove
        /\ (rec_res.err \notin {Ok, Pending} /\ pos > attempt_pos) =>
                result = rec_res.err
        /\ (TypeNotAbove /\ ValueRead /\ IsEven(record_type)
                /\ record_type \notin RecognizedTypes) =>
                result = UnknownRequiredFeature
        /\ (TypeNotAbove /\ TruncatedRecord(Rest)) =>
                result = ShortRead
        /\ Ascending(tlv_stream)
        /\ SubSeq(input, 1, attempt_pos) = EncodedStream(tlv_stream)

---------------------------------------------------------------------------
(* Termination of TLVStream::read.  The call runs on its own thread of     *)
(* control, with nothing to wait for but the Cursor, which never blocks:   *)
(* a step that can be taken is taken.                                      *)

\* the call is in progress: one of the steps of Next can be taken
InProgress == pc # "done"

\* weak fairness of the steps of the call, WF_vars(Next), with
\* ENABLED <<Next>>_vars written out as InProgress
SpecFair ==
    /\ Init
    /\ [][Next]_vars
    /\ ([]<>(~InProgress) \/ []<><<Next>>_vars)

\* how far the current attempt is: 6 at the top of the loop, down to 1
\* when TLVRecord::read has returned, 0 when the call is over
Stage ==
    IF pc = "loop" THEN 6
    ELSE IF pc = "match" THEN 1
    ELSE IF pc = "done" THEN 0
    ELSE IF rec_pc = "type" THEN 5
    ELSE IF rec_pc = "length" THEN 4
    ELSE IF rec_pc = "value" THEN 3
    ELSE 2

\* a bound on the steps the call has left: 7 for each byte of the input
\* after the start of the attempt, and the stage of the attempt
StepsLeft ==
    7 * (Len(input) - (IF pc = "loop" THEN pos ELSE attempt_pos)) + Stage

\* the state part of C21
ReadBounded ==
    /\ StepsLeft >= 0
    /\ pos <= Len(input)
    /\ 2 * Len(tlv_stream) <= pos
    /\ (pc = "loop" /\ rec_res.err = Ok) => pos >= attempt_pos + 2
    /\ (pc = "done" /\ result = Ok) =>
            /\ pos = Len(input)
            /\ pos = attempt_pos
            /\ 2 * Len(tlv_stream) <= Len(input)
    /\ (pc = "done" /\ result # Ok) =>
            \/ rec_res.err # Ok /\ result = rec_res.err
            \/ /\ rec_res.err = Ok
               /\ OutOfOrder(tlv_stream, rec_res.record)
               /\ result = InvalidData
            \/ result = Panic

\* C21: TLVStream::read ends on every input: every step brings it nearer
\* to its end (at most 7 steps for each byte of the input, and 6), and it
\* does end, with Ok, with the error of its last attempt (the record's,
\* or InvalidData for a record out of order) or with a panic;
\* it only returns Ok when an attempt found the input consumed to
\* its last byte; a record is pushed only by an attempt that
\* consumed at least two bytes, so the records pushed, and those
\* returned, are at most half as many as the bytes consumed.
C21_Terminates ==
    /\ []ReadBounded
    /\ [][StepsLeft' < StepsLeft]_vars
    /\ <>(pc = "done")

\* the call returned two records from an input of four bytes
C21_Witness ==
    /\ pc = "done"
    /\ result = Ok
    /\ Len(tlv_stream) = 2
    /\ Len(input) = 4

===========================================================================
